---- MODULE Spec2Model ----
(***************************************************************************)
(* A model of carQuery: the paginated scrape pipeline                      *)
(* (carqueries/session.py), the record identity (carqueries/auto.py) and   *)
(* the aggregation tree (carqueries/views.py).                             *)
(*                                                                         *)
(* Python strings are tuples of one-character strings, so that lower(),    *)
(* format() and join() are computed character by character.                *)
(***************************************************************************)
EXTENDS Integers, Sequences, FiniteSets, TLC

\* ------------------------------------------------------------------ bounds

\* the largest number of result pages a first page announces
MaxPages == 2
\* the largest number of listing elements on one page
MaxListings == 1
\* the largest number of rows hidden at a time
MaxPool == 3

MaxHidden == 1

\* ----------------------------------------------------------------- strings

UpperCase == <<"A","B","C","D","E","F","G","H","I","J","K","L","M",
               "N","O","P","Q","R","S","T","U","V","W","X","Y","Z">>
LowerCase == <<"a","b","c","d","e","f","g","h","i","j","k","l","m",
               "n","o","p","q","r","s","t","u","v","w","x","y","z">>
Digits == <<"0","1","2","3","4","5","6","7","8","9">>

\* the characters of the model in ASCII order
Ascii == <<" ", "/">> \o Digits \o UpperCase \o <<"_">> \o LowerCase

\* Python's None; no string equals it
None == <<"<None>">>

\* ord(c), up to an order-preserving renumbering
Ord(c) == CHOOSE i \in 1..Len(Ascii) : Ascii[i] = c

\* c.lower() of one character
LowerChar(c) ==
    IF \E i \in 1..Len(UpperCase) : UpperCase[i] = c
    THEN LowerCase[CHOOSE i \in 1..Len(UpperCase) : UpperCase[i] = c]
    ELSE c

\* s.lower()
Lower(s) == [i \in 1..Len(s) |-> LowerChar(s[i])]

\* str(v) of a string or None
Str(v) == IF v = None THEN <<"N","o","n","e">> ELSE v

\* cmp(a, b) < 0 of Python 2 on two values that are strings or None:
\* None sorts before every string, strings compare character by character
RECURSIVE StrLess(_, _)
StrLess(a, b) ==
    IF a = None \/ b = None THEN a = None /\ b # None
    ELSE IF b = <<>> THEN FALSE
    ELSE IF a = <<>> THEN TRUE
    ELSE IF Head(a) # Head(b) THEN Ord(Head(a)) < Ord(Head(b))
    ELSE StrLess(Tail(a), Tail(b))

\* sep.join(parts)
RECURSIVE Join(_, _)
Join(sep, parts) ==
    IF parts = <<>> THEN <<>>
    ELSE IF Len(parts) = 1 THEN parts[1]
    ELSE parts[1] \o sep \o Join(sep, Tail(parts))

Range(s) == {s[i] : i \in 1..Len(s)}

\* the sequences that list every element of S exactly once
Orderings(S) ==
    {s \in [1..Cardinality(S) -> S] : \A i, j \in 1..Cardinality(S) : s[i] = s[j] => i = j}

\* ----------------------------------------------------------- the catalog

s_Unknown == <<"U","n","k","n","o","w","n">>
s_Joe == <<"J","o","e">>
s_joe == <<"j","o","e">>
s_SE == <<"S","E">>
s_LE == <<"L","E">>
s_SEL == <<"S","E","L">>
s_Camry == <<"C","a","m","r","y">>
s_Taurus == <<"T","a","u","r","u","s">>
s_a1 == <<"a","1">>
s_b2 == <<"b","2">>
s_B2 == <<"B","2">>

\* the models a query may name: AutoModel.uuid of the models of
\* AutoQuery.defaults
Models == {"toyota_camry", "ford_taurus"}

\* the lists of models a caller may query: those of AutoQuery.defaults, of
\* which filter(None, ...) drops the models the catalog does not know
Queries ==
    {<<>>, <<"toyota_camry">>, <<"ford_taurus">>, <<"toyota_camry", "ford_taurus">>}

\* ------------------------------------------------------------ the records

\* The field bags AutoRecord.parse_record reads from listing elements: the
\* data-listing-id attribute as a string, the raw title, the style left of
\* the title, the 'dealer' and 'model' fields (set only by a paragraph
\* "dealer: x" / "model: x") and the 'dealer-name' field.
Listings ==
    { [listing_id |-> s_a1, title |-> s_Camry \o <<" ">> \o s_SE, style |-> s_SE,
       dealer |-> s_Unknown, dealer_name |-> s_Joe, model |-> None],
      [listing_id |-> s_a1, title |-> s_Camry \o <<" ">> \o s_LE, style |-> s_LE,
       dealer |-> s_Joe, dealer_name |-> s_Joe, model |-> None],
      [listing_id |-> s_b2, title |-> s_Taurus, style |-> s_Unknown,
       dealer |-> s_Unknown, dealer_name |-> s_joe, model |-> s_Taurus],
      [listing_id |-> s_B2, title |-> s_Taurus \o <<" ">> \o s_SEL, style |-> s_SEL,
       dealer |-> s_joe, dealer_name |-> s_Unknown, model |-> s_Taurus] }

\* AutoRecord(auto_model, **kwargs)
AutoRecord(auto_model, fields) ==
    [listing_id |-> fields.listing_id, title |-> fields.title, style |-> fields.style,
     dealer |-> fields.dealer, dealer_name |-> fields.dealer_name,
     model |-> fields.model, auto_model |-> auto_model]

Records == {AutoRecord(m, l) : m \in Models, l \in Listings}

\* AutoRecord.title: the style when known, else the raw title
Title(r) == IF r.style # s_Unknown THEN r.style ELSE r.title

\* a bug AutoRecordEq could have: object identity in place of the listing id
AutoRecordEqWhole(a, b) == a = b

\* AutoRecord.__eq__ (and __hash__): by listing id
AutoRecordEq(a, b) == a.listing_id = b.listing_id

\* AutoRecord.__cmp__(a, b) < 0: by display title
AutoRecordLess(a, b) == StrLess(Title(a), Title(b))

\* set.add(r): an element equal to r keeps its place
SetAdd(S, r) == IF \E x \in S : AutoRecordEq(x, r) THEN S ELSE S \cup {r}

\* a bug Cleared could have: the set is not cleared
Kept(S) == S

\* set.clear()
Cleared(S) == {}

\* AutoRecord.from_soup: the listing elements in document order, parsed and
\* added to a set
RECURSIVE FromListings(_, _, _)
FromListings(auto_model, listings, acc) ==
    IF listings = <<>> THEN acc
    ELSE FromListings(auto_model, Tail(listings),
                      SetAdd(acc, AutoRecord(auto_model, Head(listings))))

\* set.update(T)
RECURSIVE SetUpdate(_, _)
SetUpdate(S, T) ==
    IF T = {} THEN S
    ELSE LET r == CHOOSE x \in T : TRUE
         IN SetUpdate(SetAdd(S, r), T \ {r})

\* list(records) then list.sort(): every arrangement of the set that is
\* non-decreasing by AutoRecord.__cmp__
SortedLists(S) ==
    {s \in Orderings(S) :
        \A i, j \in 1..Len(s) : i < j => ~AutoRecordLess(s[j], s[i])}

\* ----------------------------------------------------------- page fetches

\* AutoQuery.NUM_RECORDS
NUM_RECORDS == 100

\* the marker "<total> cars" is absent from the page
NoMarker == -1

\* the totals a page announces: none, 0, and around each multiple of the
\* page size
Totals ==
    {NoMarker, 0} \cup {NUM_RECORDS * k : k \in 1..(MaxPages - 1)}
                  \cup {NUM_RECORDS * k + 1 : k \in 1..(MaxPages - 1)}

\* the sequences of at most n elements of S
RECURSIVE SeqsUpTo(_, _)
SeqsUpTo(S, n) ==
    IF n = 0 THEN {<<>>}
    ELSE LET shorter == SeqsUpTo(S, n - 1)
         IN shorter \cup {Append(s, x) : s \in shorter, x \in S}

\* Session.get_page_soup returned None
NoSoup == [ok |-> FALSE, listings |-> <<>>, total |-> NoMarker]

\* the pages Session.get_page_soup can return
Soups ==
    {[ok |-> TRUE, listings |-> l, total |-> t] :
        l \in SeqsUpTo(Listings, MaxListings), t \in Totals}

\* a bug CeilDiv could have: the quotient is rounded down
FloorDiv(total, n) == total \div n

\* int(math.ceil(float(total) / n))
CeilDiv(total, n) == (total + n - 1) \div n

Max(a, b) == IF a >= b THEN a ELSE b

\* a bug GetNumPages could have: the count is not floored at one page
GetNumPagesUnfloored(soup) ==
    IF ~soup.ok THEN 1
    ELSE IF soup.total = NoMarker THEN 1
    ELSE CeilDiv(soup.total, NUM_RECORDS)

\* AutoQuery._get_num_pages
GetNumPages(soup) ==
    IF ~soup.ok THEN 1
    ELSE IF soup.total = NoMarker THEN 1
    ELSE Max(1, CeilDiv(soup.total, NUM_RECORDS))

\* history: the total _get_num_pages read on this page; it is called on
\* page 1 only and reads nothing from None or from a page without marker
MarkerRead(page, soup) ==
    IF page = 1 /\ soup.ok THEN soup.total ELSE NoMarker

\* a bug Progress could have: pages counted from zero
ProgressFromZero(page, pages) == [n |-> page - 1, d |-> pages]

\* float(page) / float(num_pages), kept as a fraction
Progress(page, pages) == [n |-> page, d |-> pages]

Zero == [n |-> 0, d |-> 1]

\* a <= b on fractions with positive denominators
FracLeq(a, b) == a.n * b.d <= b.n * a.d

\* a bug NextPage could have: a page is skipped
NextPageSkipping(page) == page + 2

\* page += 1
NextPage(page) == page + 1

\* --------------------------------------------------------------- the tree

\* TreeColumns.dealer.name and TreeColumns.model.name
c_dealer == <<"d","e","a","l","e","r">>
c_model == <<"m","o","d","e","l">>

Columns == {c_dealer, c_model}

\* the lists of grouping columns a tree model may hold; TreeModel.__init__
\* sets [dealer, model]
DefaultGroupings == <<c_dealer, c_model>>
Groupings == {<<>>, <<c_dealer>>, <<c_dealer, c_model>>}

\* AutoRecord.data(column): fields.get(column.name)
RecordData(r, column) ==
    IF column = c_dealer THEN r.dealer
    ELSE IF column = c_model THEN r.model
    ELSE None

\* the record slot of a row that wraps no record
NoRecord == [listing_id |-> None]

\* TreeRow.__init__: str(row_id).lower(), not hidden, nothing populated
TreeRow(kind, row_id) ==
    [kind |-> kind, row_id |-> Lower(Str(row_id)), hidden |-> FALSE, records |-> <<>>,
     children |-> 0, column |-> None, matcher |-> None, depth |-> 0, title |-> None, record |-> NoRecord]

\* TreeGroup.__init__
TreeGroup(column, matcher, depth, row_id) ==
    [TreeRow("group", IF row_id = None
                      THEN Str(column) \o <<"_">> \o Str(matcher)
                      ELSE row_id)
        EXCEPT !.column = column, !.matcher = matcher, !.depth = depth,
               !.title = Str(matcher)]

\* RootRow.__init__: TreeGroup('', '', 0, row_id='root')
RootRow == [TreeGroup(<<>>, <<>>, 0, <<"r","o","o","t">>) EXCEPT !.kind = "root"]

\* AutoRow.__init__: the row id is the record's token, its listing id
AutoRow(record) == [TreeRow("leaf", record.listing_id) EXCEPT !.record = record]

\* a bug IsIncluded could have: a group includes every record
IsIncludedAlways(row, r) == TRUE

\* TreeGroup._is_included, RootRow._is_included
IsIncluded(row, r) ==
    IF row.kind = "root" THEN TRUE ELSE RecordData(r, row.column) = row.matcher

\* TreeGroup.get_unique_values
GetUniqueValues(row, column) == {RecordData(row.records[i], column) : i \in 1..Len(row.records)}

\* a bug CreateChildren could have: the leaves are created one level early
CreateChildrenEarly(row, groupings, enum) ==
    IF row.depth + 1 >= Len(groupings)
    THEN [i \in 1..Len(row.records) |-> AutoRow(row.records[i])]
    ELSE LET column == groupings[row.depth + 1]
             values == GetUniqueValues(row, column)
             listed == SelectSeq(enum[column], LAMBDA v : v \in values)
         IN [i \in 1..Len(listed) |-> TreeGroup(column, listed[i], row.depth + 1, None)]

\* TreeGroup.create_children: the leaves in the pool's order at the last
\* depth, else one group per distinct value, the set of values being
\* enumerated in the order enum[column]
CreateChildren(row, groupings, enum) ==
    IF row.depth = Len(groupings)
    THEN [i \in 1..Len(row.records) |-> AutoRow(row.records[i])]
    ELSE LET column == groupings[row.depth + 1]
             values == GetUniqueValues(row, column)
             listed == SelectSeq(enum[column], LAMBDA v : v \in values)
         IN [i \in 1..Len(listed) |-> TreeGroup(column, listed[i], row.depth + 1, None)]

\* TreeGroup.populate and AutoRow.populate of the row at position pos (the
\* child indices from the root): the rows of its subtree by position, each
\* holding the length of its list of children. A leaf's pool is the row
\* itself, held here as the record it wraps.
RECURSIVE Populate(_, _, _, _, _)
Populate(row, pos, parent_records, groupings, enum) ==
    IF row.kind = "leaf"
    THEN {<<pos, [row EXCEPT !.records = <<row.record>>]>>}
    ELSE LET pool == SelectSeq(parent_records, LAMBDA r : IsIncluded(row, r))
             self == [row EXCEPT !.records = pool]
             children == CreateChildren(self, groupings, enum)
         IN {<<pos, [self EXCEPT !.children = Len(children)]>>} \cup
            UNION {Populate(children[i], Append(pos, i), pool, groupings, enum) :
                      i \in 1..Len(children)}

\* TreeColumns.title.name and TreeColumns.image.name
c_title == <<"t","i","t","l","e">>
c_image == <<"i","m","a","g","e">>

\* the columns a leaf is asked for: the shown title, dealer and image
\* columns and the hidden model column
LeafColumns == {c_title, c_dealer, c_model, c_image}

\* the names hasattr finds on an AutoRow among the column names: the
\* attribute model set by populate and the property image of TreeRow. No
\* class of the row defines title, dealer or fields, nor __getattr__.
RowAttributes == {c_model, c_image}

\* the TreeModel object AutoRow.populate stores in self.model
TreeModelObject == <<"<TreeModel>">>

\* AutoRow.data(column): None for the image column, the attribute of the
\* row when it has one of that name, else self.fields.get(name), where the
\* row has no attribute fields
AutoRowData(row, column) ==
    IF column = c_image THEN [raised |-> "none", value |-> None]
    ELSE IF column \in RowAttributes
    THEN [raised |-> "none", value |-> TreeModelObject]
    ELSE [raised |-> "AttributeError", value |-> None]

\* the rows by position as a function
TreeOf(rows) == [pos \in {x[1] : x \in rows} |-> (CHOOSE x \in rows : x[1] = pos)[2]]

\* row.children, as positions
Children(t, pos) == [i \in 1..t[pos].children |-> Append(pos, i)]

\* TreeRow.iter_ancestors: the positions from the row (or its parent) up to
\* the root
RECURSIVE IterAncestors(_, _)
IterAncestors(pos, include_self) ==
    LET up == IF pos = <<>> THEN <<>>
              ELSE IterAncestors(SubSeq(pos, 1, Len(pos) - 1), TRUE)
    IN IF include_self THEN <<pos>> \o up ELSE up

Reversed(s) == [i \in 1..Len(s) |-> s[Len(s) + 1 - i]]

\* a bug GetRowPath could have: the rows are named by their index in the parent
GetRowPathByIndex(t, pos) ==
    Join(<<"/">>, [i \in 1..Len(pos) |-> <<Digits[pos[i] + 1]>>])

\* TreeRow.get_row_path
GetRowPath(t, pos) ==
    LET rows == IterAncestors(pos, TRUE)
        row_ids == [i \in 1..Len(rows) |-> t[rows[i]].row_id]
    IN Join(<<"/">>, Reversed(row_ids))

\* a bug GetIsHidden could have: the row's own flag is not read
GetIsHiddenAbove(t, pos) ==
    \E i \in 1..Len(IterAncestors(pos, FALSE)) : t[IterAncestors(pos, FALSE)[i]].hidden

\* TreeRow.get_is_hidden
GetIsHidden(t, pos) ==
    \E i \in 1..Len(IterAncestors(pos, TRUE)) : t[IterAncestors(pos, TRUE)[i]].hidden

RECURSIVE SumSeq(_)
SumSeq(s) == IF s = <<>> THEN 0 ELSE Head(s) + SumSeq(Tail(s))

\* a bug NumRecords could have: a visible row counts its record pool
NumRecordsOfPool(t, pos) == IF t[pos].hidden THEN 0 ELSE Len(t[pos].records)

\* TreeRow.num_records, which AutoRow inherits
RECURSIVE NumRecords(_, _)
NumRecords(t, pos) ==
    IF t[pos].hidden \/ Children(t, pos) = <<>> THEN 0
    ELSE SumSeq([i \in 1..Len(Children(t, pos)) |-> NumRecords(t, Children(t, pos)[i])])

\* the row paths of the rows of a tree
RowPaths(t) == {GetRowPath(t, pos) : pos \in DOMAIN t}

\* the row paths of its hidden rows
HiddenPaths(t) == {GetRowPath(t, pos) : pos \in {p \in DOMAIN t : t[p].hidden}}

\* the orders in which the set of the values of a column can be enumerated
Enumerations(recs, groupings) ==
    LET orders(c) == IF c \in Range(groupings)
                     THEN Orderings({RecordData(recs[i], c) : i \in 1..Len(recs)})
                     ELSE {<<>>}
    IN {[c \in Columns |-> IF c = c_dealer THEN od ELSE om] :
            od \in orders(c_dealer), om \in orders(c_model)}

\* the lists AutoQuery.populate can return for the query [toyota_camry]
RecordLists ==
    UNION {SortedLists(S) :
             S \in {T \in SUBSET {AutoRecord("toyota_camry", l) : l \in Listings} :
                      \A a, b \in T : AutoRecordEq(a, b) => a = b}}

\* ------------------------------------------------------------ the catalog

s_all == <<"a","l","l">>
s_none == <<"n","o","n","e">>
s_E == <<"E">>
s_e == <<"e">>
s_e_g == <<"e","_","g">>
s_g_x == <<"g","_","x">>
s_x == <<"x">>
s_X == <<"X">>
s_Echo == <<"E","c","h","o">>
s_EchoG == <<"E","c","h","o"," ","G">>
s_GX == <<"G","X">>
s_AllMakes == <<"A","l","l"," ","M","a","k","e","s">>

\* text.strip() of spaces
RECURSIVE Strip(_)
Strip(text) ==
    IF text = <<>> THEN text
    ELSE IF Head(text) = " " THEN Strip(Tail(text))
    ELSE IF text[Len(text)] = " " THEN Strip(SubSeq(text, 1, Len(text) - 1))
    ELSE text

\* A page as from_soup reads it has the fields ok (the soup is not None),
\* found (the drop-down element exists) and drop_down (its options).
\* The option elements of the make drop-down: the value attribute (None
\* when the attribute is absent) and the text
o_All == [value |-> <<"A","l","l">>, text |-> s_AllMakes]
o_E == [value |-> s_E, text |-> s_Echo]
o_e_g == [value |-> s_e_g, text |-> <<" ">> \o s_EchoG]
o_g_x == [value |-> s_g_x, text |-> s_GX]
o_x == [value |-> s_x, text |-> s_X]
o_bare == [value |-> None, text |-> s_X]

\* the make drop-downs of the for-sale page
MakeDropDowns == {<<o_All, o_bare>>, <<o_E, o_e_g>>, <<o_E, o_E>>}

\* the model drop-downs of the page of one make
ModelDropDowns == {<<o_g_x>>, <<o_x>>}

\* BaseAuto.from_soup: the (token, label) pairs of the options of the
\* drop-down, in document order, without the options whose token is 'all'
FromSoup(soup) ==
    IF ~soup.ok THEN <<>>
    ELSE IF ~soup.found THEN <<>>
    ELSE LET drop_down == soup.drop_down
             options == [i \in 1..Len(drop_down) |->
                            [token |-> Lower(IF drop_down[i].value = None THEN s_none
                                            ELSE drop_down[i].value),
                             label |-> Strip(drop_down[i].text)]]
         IN SelectSeq(options, LAMBDA o : o.token # s_all)

\* AutoMake.__init__(parent, token, label) with its models assigned: the
\* models of a make are held as (token, label) pairs, their parent being
\* the make that holds them
AutoMake(token, label, models) ==
    [parent |-> None, token |-> token, label |-> label, models |-> models]

\* AutoModel.__init__(parent, token, label): the model at index i of a make
AutoModel(make, i) ==
    [make |-> make, token |-> make.models[i].token, label |-> make.models[i].label]

\* BaseAuto.uuid
MakeUuid(make) == make.token

\* AutoModel.uuid
ModelUuid(model) == model.make.token \o <<"_">> \o model.token

\* a bug MakeMatches could have: the term is compared without regard to case
MakeMatchesAnyCase(make, value) ==
    Lower(value) \in {Lower(make.token), Lower(make.label), Lower(MakeUuid(make))}

\* BaseAuto.matches on a make
MakeMatches(make, value) == value \in {make.token, make.label, MakeUuid(make)}

\* BaseAuto.matches on a model
ModelMatches(model, value) == value \in {model.token, model.label, ModelUuid(model)}

\* AutoMake.serialize: dict(token, label) and, under AutoModel.JSON_KEY,
\* the serialized models
MakeSerialize(make) ==
    [token |-> make.token, label |-> make.label,
     models |-> [i \in 1..Len(make.models) |->
                    [token |-> make.models[i].token, label |-> make.models[i].label]]]

\* the keys a dict must hold for AutoMake.deserialize not to raise
\* KeyError: data['token'], data['label'], data['models'], and both keys
\* of every model
Deserializable(data) ==
    /\ {"token", "label", "models"} \subseteq DOMAIN data
    /\ \A i \in 1..Len(data.models) : {"token", "label"} \subseteq DOMAIN data.models[i]

\* AutoMake.deserialize(None, data)
MakeDeserialize(data) ==
    AutoMake(data.token, data.label,
             [i \in 1..Len(data.models) |->
                 [token |-> data.models[i].token, label |-> data.models[i].label]])

\* set(makes): of the makes that are equal (same unique id) the first of
\* the list is kept
RECURSIVE MakeSet(_, _)
MakeSet(makes, acc) ==
    IF makes = <<>> THEN acc
    ELSE MakeSet(Tail(makes),
                 IF \E k \in acc : MakeUuid(k) = MakeUuid(Head(makes))
                 THEN acc ELSE acc \cup {Head(makes)})

\* utils.flatten(k.models for k in makes)
RECURSIVE Flatten(_)
Flatten(makes) ==
    IF makes = <<>> THEN <<>>
    ELSE [i \in 1..Len(Head(makes).models) |-> AutoModel(Head(makes), i)]
            \o Flatten(Tail(makes))

\* set(models): of the models that are equal (same unique id) the first
\* of the list is kept
RECURSIVE ModelSet(_, _)
ModelSet(models, acc) ==
    IF models = <<>> THEN acc
    ELSE ModelSet(Tail(models),
                  IF \E m \in acc : ModelUuid(m) = ModelUuid(Head(models))
                  THEN acc ELSE acc \cup {Head(models)})

\* AutoSet.__init__
EmptyAutoSet == [makes |-> <<>>, models |-> {}, makes_by_id |-> <<>>, models_by_id |-> <<>>]

\* a bug AutoSetPopulate could have: the models are gathered from the list
\* handed in, not from the set of makes
AutoSetPopulateFromList(makes, order) ==
    LET models == ModelSet(Flatten(makes), {})
    IN [makes |-> order,
        models |-> models,
        makes_by_id |-> [id \in {MakeUuid(k) : k \in Range(order)} |->
                            CHOOSE k \in Range(order) : MakeUuid(k) = id],
        models_by_id |-> [id \in {ModelUuid(m) : m \in models} |->
                            CHOOSE m \in models : ModelUuid(m) = id]]

\* AutoSet.populate(makes). The set of makes is held as the sequence in
\* which it is enumerated; order is one of the orders of set(makes).
AutoSetPopulate(makes, order) ==
    LET models == ModelSet(Flatten(order), {})
    IN [makes |-> order,
        models |-> models,
        makes_by_id |-> [id \in {MakeUuid(k) : k \in Range(order)} |->
                            CHOOSE k \in Range(order) : MakeUuid(k) = id],
        models_by_id |-> [id \in {ModelUuid(m) : m \in models} |->
                            CHOOSE m \in models : ModelUuid(m) = id]]

\* the None that get_make and get return
NoMatch == [token |-> None]

\* AutoSet.get_make: the first make of the enumeration that matches
GetMake(auto_set, make_term) ==
    LET hits == SelectSeq(auto_set.makes, LAMBDA k : MakeMatches(k, make_term))
    IN IF hits = <<>> THEN NoMatch ELSE Head(hits)

\* AutoSet.get: the first matching model of the make found
AutoSetGet(auto_set, make_term, model_term) ==
    LET make == GetMake(auto_set, make_term)
    IN IF make = NoMatch THEN NoMatch
       ELSE LET hits == SelectSeq(Flatten(<<make>>), LAMBDA m : ModelMatches(m, model_term))
            IN IF hits = <<>> THEN NoMatch ELSE Head(hits)

\* the ways a page fetch can end: a page, urllib2.HTTPError (get_page_soup
\* returns None), a response code other than 200 (RuntimeError), a
\* urllib2.URLError that is not an HTTPError
Raising == {"not_200", "url_error"}
Failures ==
    {[outcome |-> o, found |-> FALSE, drop_down |-> <<>>] : o \in {"http_error"} \cup Raising}

\* the fetches of the for-sale page: its make drop-down may be absent
MakeFetches ==
    Failures \cup
    {[outcome |-> "ok", found |-> FALSE, drop_down |-> <<>>]} \cup
    {[outcome |-> "ok", found |-> TRUE, drop_down |-> d] : d \in MakeDropDowns}

\* the fetches of the page of one make
ModelFetches ==
    {f \in Failures : f.outcome # "url_error"} \cup
    {[outcome |-> "ok", found |-> TRUE, drop_down |-> d] : d \in ModelDropDowns}

\* no page is fetched
NoFetch == [outcome |-> "none", found |-> FALSE, drop_down |-> <<>>]

\* Session.get_page_soup of a fetch that does not raise
PageSoup(fetch) ==
    [ok |-> fetch.outcome = "ok", found |-> fetch.found, drop_down |-> fetch.drop_down]

\* the exception a fetch raises out of get_page_response
Raised(fetch) ==
    IF fetch.outcome = "not_200" THEN "RuntimeError"
    ELSE IF fetch.outcome = "url_error" THEN "URLError"
    ELSE "none"

\* AutoSet.refresh up to populate: the makes of the for-sale page, each
\* with the models of its own page, the number of fetches, and the
\* exception of the first fetch that raised
RefreshMakes(first, rest) ==
    LET found == FromSoup(PageSoup(first))
        bad == {i \in 1..Len(found) : rest[i].outcome \in Raising}
        stop == IF bad = {} THEN Len(found)
                ELSE CHOOSE i \in bad : \A j \in bad : i <= j
    IN IF first.outcome \in Raising
       THEN [error |-> Raised(first), fetches |-> 1, makes |-> <<>>]
       ELSE [error |-> IF bad = {} THEN "none" ELSE Raised(rest[stop]),
             fetches |-> 1 + stop,
             makes |-> [i \in 1..Len(found) |->
                          AutoMake(found[i].token, found[i].label,
                                   IF bad = {} THEN FromSoup(PageSoup(rest[i])) ELSE <<>>)]]

\* the fetches refresh makes after the first: one per make, and nothing
\* but the raising fetch itself after a fetch that raised
RestFetches(first) ==
    LET n == IF first.outcome \in Raising THEN 0 ELSE Len(FromSoup(PageSoup(first)))
    IN {rest \in [1..n -> ModelFetches] :
          \A i \in 1..n : \A j \in 1..n :
             (i < j /\ rest[i].outcome \in Raising) => rest[j] = rest[i]}

\* the cache files a session can find: none, a file that is not JSON, JSON
\* of a make without its models, JSON written by hand
NoFile == [kind |-> "missing", data |-> <<>>]
InitialCaches ==
    { NoFile,
      [kind |-> "text", data |-> <<>>],
      [kind |-> "json", data |-> <<[token |-> s_e, label |-> s_Echo]>>],
      [kind |-> "json",
       data |-> <<[token |-> s_E, label |-> s_Echo,
                   models |-> <<[token |-> s_all, label |-> s_AllMakes]>>]>>] }

\* the terms a caller looks up
Lookups ==
    {<<s_e, s_x>>, <<s_E, s_x>>, <<s_Echo, s_e \o <<"_">> \o s_x>>, <<s_e_g, s_GX>>}

\* the exception AutoSet.load raises on a cache file: open() fails on a
\* missing file, the JSON decoder on text that is not JSON, deserialize
\* on a missing key
LoadError(file) ==
    IF file.kind = "missing" THEN "IOError"
    ELSE IF file.kind = "text" THEN "ValueError"
    ELSE IF \E i \in 1..Len(file.data) : ~Deserializable(file.data[i]) THEN "KeyError"
    ELSE "none"

\* AutoSet.load up to populate: the deserialized makes
LoadMakes(file) == [i \in 1..Len(file.data) |-> MakeDeserialize(file.data[i])]

\* AutoSet.save: the JSON written
Saved(auto_set) ==
    [kind |-> "json",
     data |-> [i \in 1..Len(auto_set.makes) |-> MakeSerialize(auto_set.makes[i])]]

\* ------------------------------------------------------- listing markup

\* the values of the dictionaries kwargs and AutoRecord.fields: an int, a
\* string, a list of strings (in str) or None
IntV(n) == [type |-> "int", int |-> n, str |-> <<>>]
StrV(s) == [type |-> "str", int |-> 0, str |-> s]
ListV(l) == [type |-> "list", int |-> 0, str |-> l]
NoneV == [type |-> "None", int |-> 0, str |-> <<>>]

\* int(c) of a digit
DigitValue(c) == (CHOOSE i \in 1..Len(Digits) : Digits[i] = c) - 1

\* t.isdigit()
IsDigit(t) == t # <<>> /\ \A i \in 1..Len(t) : \E d \in 1..Len(Digits) : Digits[d] = t[i]

\* int(t) of a string of digits
RECURSIVE ToInt(_)
ToInt(t) ==
    IF t = <<>> THEN 0
    ELSE ToInt(SubSeq(t, 1, Len(t) - 1)) * 10 + DigitValue(t[Len(t)])

\* str(n) of an int n >= 0
RECURSIVE IntStr(_)
IntStr(n) ==
    IF n < 10 THEN <<Digits[n + 1]>>
    ELSE Append(IntStr(n \div 10), Digits[(n % 10) + 1])

\* utils.parse_number(value): the digits left by re.sub('[^0-9]+', '', value)
\* as an int, the default 0 when none is left or value is no string
ParseNumber(value) ==
    IF value.type # "str" THEN 0
    ELSE LET digits == SelectSeq(value.str, LAMBDA c : IsDigit(<<c>>))
         IN IF digits # <<>> THEN ToInt(digits) ELSE 0

\* t.strip(chars)
RECURSIVE StripChars(_, _)
StripChars(t, chars) ==
    IF t = <<>> THEN t
    ELSE IF Head(t) \in chars THEN StripChars(Tail(t), chars)
    ELSE IF t[Len(t)] \in chars THEN StripChars(SubSeq(t, 1, Len(t) - 1), chars)
    ELSE t

\* text.split(sep) for a separator of one character
RECURSIVE Split(_, _)
Split(text, sep) ==
    IF \A i \in 1..Len(text) : text[i] # sep THEN <<text>>
    ELSE LET i == CHOOSE k \in 1..Len(text) :
                      text[k] = sep /\ \A j \in 1..(k - 1) : text[j] # sep
         IN <<SubSeq(text, 1, i - 1)>> \o Split(SubSeq(text, i + 1, Len(text)), sep)

\* sub in text
Contains(sub, text) ==
    \E i \in 1..(Len(text) - Len(sub) + 1) : SubSeq(text, i, i + Len(sub) - 1) = sub

\* text.partition(sep) for a separator of one character
Partition(text, sep) ==
    IF \A i \in 1..Len(text) : text[i] # sep
    THEN [head |-> text, sep |-> <<>>, tail |-> <<>>]
    ELSE LET i == CHOOSE k \in 1..Len(text) :
                      text[k] = sep /\ \A j \in 1..(k - 1) : text[j] # sep
         IN [head |-> SubSeq(text, 1, i - 1), sep |-> <<sep>>,
             tail |-> SubSeq(text, i + 1, Len(text))]

\* d.update(k)
Update(d, k) ==
    [x \in DOMAIN d \cup DOMAIN k |-> IF x \in DOMAIN k THEN k[x] ELSE d[x]]

\* d[key] = value
Put(d, key, value) == Update(d, [x \in {key} |-> value])

\* the keys of kwargs and fields
k_sale_type == <<"s","a","l","e","_","t","y","p","e">>
k_title == <<"t","i","t","l","e">>
k_doors == <<"d","o","o","r","s">>
k_style == <<"s","t","y","l","e">>
k_engine == <<"e","n","g","i","n","e">>
k_dealer == <<"d","e","a","l","e","r">>
k_distance == <<"d","i","s","t","a","n","c","e">>
k_interior == <<"i","n","t","e","r","i","o","r">>
k_exterior == <<"e","x","t","e","r","i","o","r">>
k_transmission == <<"t","r","a","n","s","m","i","s","s","i","o","n">>
k_thumb == <<"t","h","u","m","b">>
k_image == <<"i","m","a","g","e">>
k_year == <<"y","e","a","r">>
k_mileage == <<"m","i","l","e","a","g","e">>
k_price == <<"p","r","i","c","e">>
k_index == <<"i","n","d","e","x">>
k_listing_id == <<"l","i","s","t","i","n","g","_","i","d">>
k_owner_id == <<"o","w","n","e","r","_","i","d">>
k_html_class == <<"h","t","m","l","_","c","l","a","s","s">>
k_cls == <<"c","l","s">>
k_thumbnail == <<"t","h","u","m","b","n","a","i","l">>
k_manufacturer == <<"m","a","n","u","f","a","c","t","u","r","e","r">>

\* the keys written with a hyphen
h_current_index == <<"c","u","r","r","e","n","t","-","i","n","d","e","x">>
h_listing_id == <<"l","i","s","t","i","n","g","-","i","d">>
h_listing_type == <<"l","i","s","t","i","n","g","-","t","y","p","e">>
h_owner_id == <<"o","w","n","e","r","-","i","d">>
h_dealer_name == <<"d","e","a","l","e","r","-","n","a","m","e">>
k_trans == <<"t","r","a","n","s",".">>

\* the strings of the listings
s_used == <<"u","s","e","d">>
s_new == <<"n","e","w">>
s_certified == <<"c","e","r","t","i","f","i","e","d">>
s_Toyota == <<"T","o","y","o","t","a">>
s_toyota == <<"t","o","y","o","t","a">>
s_camry == <<"c","a","m","r","y">>
s_http == <<"h","t","t","p",":">>
s_src == <<"/","/","i","/","1">>
s_C == <<"C">>
s_U == <<"U">>
s_N == <<"N">>
t_Scenario == <<"2","0","1","5"," ","T","o","y","o","t","a"," ","C","a","m","r","y"," ","S","E">>
t_Certified == <<"C","e","r","t","i","f","i","e","d"," ","2","0","1","5"," ","c","a","m","r","y">>
t_Years == <<"1","9","7","5"," ","L","E"," ","2","0","1","6"," ","2","0","1","5",".">>
t_Sentinel == <<"2","0","1","5"," ","U","n","k","n","o","w","n">>
t_Bare == <<"C","a","m","r","y">>
p_Price == <<" ","$","1","2",",","3","4","5"," ">>
p_Call == <<"C","a","l","l">>
a_12 == <<"1","2">>
a_7 == <<"7">>
a_V6 == <<"V","6">>
g_Dealer == <<" ","J","o","e"," ">>
g_Distance == <<"1","2"," ","m","i",".">>
g_Mileage == <<"M","i","l","e","a","g","e",":"," ","1","2",",","3","4","5">>
g_Trans == <<"T","r","a","n","s",".",":"," ","A","u","t","o">>
g_Note == <<"c","l","e","a","n">>

\* the car model whose result pages are parsed: Toyota Camry
ToyotaCamry ==
    AutoModel(AutoMake(s_toyota, s_Toyota, <<[token |-> s_camry, label |-> s_Camry]>>), 1)

\* AutoRecord.LISTING_TYPES
LISTING_TYPES ==
    [c \in {"js-used-listing", "js-new-listing", "js-certified-listing"} |->
        IF c = "js-used-listing" THEN s_used
        ELSE IF c = "js-new-listing" THEN s_new
        ELSE s_certified]

\* AutoRecord.NUMERIC_KEYS
NUMERIC_KEYS ==
    <<k_year, k_price, k_mileage, k_distance, h_current_index, h_listing_id, h_owner_id>>

\* the data attributes parse_record reads
DATA_KEYS ==
    <<h_current_index, k_engine, h_listing_id, h_listing_type, k_manufacturer, h_owner_id>>

\* a dictionary without keys
EmptyDict == [x \in {} |-> NoneV]

\* dict(pairs)
Dict(pairs) == [x \in {p[1] : p \in pairs} |-> (CHOOSE p \in pairs : p[1] = x)[2]]

\* AutoRecord.DEFAULTS
DEFAULTS ==
    Dict({<<k_sale_type, StrV(s_Unknown)>>, <<k_title, StrV(s_Unknown)>>,
          <<k_doors, StrV(s_Unknown)>>, <<k_style, StrV(s_Unknown)>>,
          <<k_engine, StrV(s_Unknown)>>, <<k_dealer, StrV(s_Unknown)>>,
          <<k_distance, StrV(s_Unknown)>>, <<k_interior, StrV(s_Unknown)>>,
          <<k_exterior, StrV(s_Unknown)>>, <<k_transmission, StrV(s_Unknown)>>,
          <<k_thumb, StrV(<<>>)>>, <<k_image, StrV(<<>>)>>,
          <<k_year, IntV(0)>>, <<k_mileage, IntV(0)>>, <<k_price, IntV(0)>>,
          <<k_index, IntV(0)>>, <<k_listing_id, IntV(0)>>, <<k_owner_id, IntV(0)>>,
          <<k_html_class, ListV(<<>>)>>})

\* A listing element as parse_record reads it:
\*   classes     element['class']
\*   price       the div of class price-info: found, whether it holds a
\*               span, the text of the span
\*   title       the anchor of class js-vehicle-name: found, its text
\*   image       the anchor of class js-vehicle-image: found, the data-src
\*               of its img (empty without img or attribute)
\*   attrs       the data attributes present, by the key after "data-"
\*   paragraphs  the p elements: whether the p has a class attribute, its
\*               classes, its text
ClassLists == {<<"listing">>, <<"listing", "js-used-listing">>}

NoPrice == [found |-> FALSE, span |-> FALSE, text |-> <<>>]
Prices ==
    {NoPrice, [found |-> TRUE, span |-> FALSE, text |-> <<>>],
     [found |-> TRUE, span |-> TRUE, text |-> p_Price],
     [found |-> TRUE, span |-> TRUE, text |-> p_Call]}

NoAnchor == [found |-> FALSE, text |-> <<>>]
TitleTexts == {t_Scenario, t_Certified, t_Years, t_Sentinel, t_Bare}
Titles == {NoAnchor} \cup {[found |-> TRUE, text |-> t] : t \in TitleTexts}

NoImage == [found |-> FALSE, src |-> <<>>]
Images == {NoImage, [found |-> TRUE, src |-> s_src]}

NoAttrs == EmptyDict
AttrDicts ==
    {NoAttrs,
     Dict({<<h_listing_id, s_a1>>, <<k_engine, a_V6>>}),
     Dict({<<h_listing_id, a_12>>, <<h_owner_id, a_7>>, <<h_current_index, a_7>>,
           <<k_engine, a_V6>>})}

Paragraph(classes, text) == [classed |-> TRUE, classes |-> classes, text |-> text]
BareParagraph == [classed |-> FALSE, classes |-> {}, text |-> g_Note]
ParagraphLists ==
    {<<>>,
     <<BareParagraph>>,
     <<Paragraph({"paragraph-two", "dealer-name"}, g_Dealer),
       Paragraph({"paragraph-two", "distance"}, g_Distance),
       Paragraph({"paragraph-two"}, g_Mileage),
       Paragraph({"paragraph-two"}, g_Trans),
       Paragraph({"paragraph-one"}, g_Note)>>}

Elements ==
    {[classes |-> c, price |-> p, title |-> t, image |-> i, attrs |-> a, paragraphs |-> g] :
        c \in ClassLists, p \in Prices, t \in Titles, i \in Images,
        a \in AttrDicts, g \in ParagraphLists}

\* kwargs.get(key, None)
KwargsGet(d, key) == IF key \in DOMAIN d THEN d[key] ELSE NoneV

\* key.replace('-', '_')
Replace(key) == [i \in 1..Len(key) |-> IF key[i] = "-" THEN "_" ELSE key[i]]

\* str(element.get('data-' + key)): 'None' when the attribute is absent
DataAttr(element, key) ==
    StrV(Str(IF key \in DOMAIN element.attrs THEN element.attrs[key] ELSE None))

\* AutoRecord.parse_data_element: the key and value of a paragraph, both
\* None (found FALSE) when it holds no data
NoData == [found |-> FALSE, key |-> <<>>, value |-> <<>>]
ParseDataElement(paragraph) ==
    IF "paragraph-two" \notin paragraph.classes THEN NoData
    ELSE LET text == Strip(paragraph.text)
             parts == Partition(text, ":")
             key == IF "dealer-name" \in paragraph.classes THEN h_dealer_name
                    ELSE IF "distance" \in paragraph.classes THEN k_distance
                    ELSE IF parts.sep # <<>> THEN parts.head
                    ELSE <<>>
             value == IF "dealer-name" \in paragraph.classes \/ "distance" \in paragraph.classes
                      THEN text
                      ELSE IF parts.sep # <<>> THEN parts.tail
                      ELSE text
             lowered == Lower(Strip(key))
         IN IF key = <<>> \/ value = <<>> THEN NoData
            ELSE [found |-> TRUE,
                  key |-> IF lowered = k_trans THEN k_transmission ELSE lowered,
                  value |-> Strip(value)]

\* the loop of parse_record over the paragraphs
RECURSIVE ParagraphsInto(_, _)
ParagraphsInto(kwargs, paragraphs) ==
    IF paragraphs = <<>> THEN kwargs
    ELSE LET data == ParseDataElement(Head(paragraphs))
         IN ParagraphsInto(IF data.found /\ data.key # <<>> /\ data.value # <<>>
                           THEN Put(kwargs, data.key, StrV(data.value))
                           ELSE kwargs,
                           Tail(paragraphs))

\* t.strip('._ ') of the words of the title
Tokens(title) ==
    LET words == Split(title, " ")
    IN [i \in 1..Len(words) |-> StripChars(words[i], {".", "_", " "})]

\* the all-digit tokens above 1980, as ints, in their order
Years(tokens) ==
    LET digits == SelectSeq(tokens, IsDigit)
        numbers == [i \in 1..Len(digits) |-> ToInt(digits[i])]
    IN SelectSeq(numbers, LAMBDA y : y > 1980)

\* parse_record: the information parsed from the title of the listing
TitleInto(kwargs, auto_model) ==
    LET title == kwargs[k_title]
    IN IF title.type # "str" \/ title.str = <<>> THEN kwargs
       ELSE LET tokens == Tokens(title.str)
                years == Years(tokens)
                dated == IF years # <<>> THEN Put(kwargs, k_year, IntV(years[1])) ELSE kwargs
                strip_tokens ==
                    {Lower(auto_model.make.label), Lower(auto_model.label),
                     s_used, s_new, s_certified} \cup {Lower(IntStr(y)) : y \in Range(years)}
                typed == IF \E i \in 1..Len(tokens) : Lower(tokens[i]) = s_certified
                         THEN Put(dated, k_sale_type, StrV(s_certified))
                         ELSE dated
                style == SelectSeq(tokens, LAMBDA t : Lower(t) \notin strip_tokens)
            IN IF style # <<>> THEN Put(typed, k_style, StrV(Join(<<" ">>, style)))
               ELSE typed

\* AutoRecord.__init__: the defaults updated with the keyword arguments
AutoRecordInit(kwargs) == Update(DEFAULTS, kwargs)

\* the outcome of a parse that raised
ParseRaised(exception) == [raised |-> exception, fields |-> EmptyDict]

\* AutoRecord.parse_record(auto_model, element): the fields of the record
\* built, or the exception raised: AttributeError by price.span.text when
\* the price div holds no span, TypeError by parse_data_element when a
\* paragraph has no class attribute
ParseRecord(auto_model, element) ==
    LET html_classes == element.classes
        initial == Dict({<<k_cls, ListV(html_classes)>>, <<k_thumbnail, NoneV>>})
        listing == SelectSeq(html_classes, LAMBDA c : c \in DOMAIN LISTING_TYPES)
        typed == IF listing # <<>>
                 THEN Put(initial, k_sale_type, StrV(LISTING_TYPES[listing[1]]))
                 ELSE initial
        price == element.price
        priced == Put(typed, k_price,
                      IF price.found THEN StrV(Strip(price.text)) ELSE NoneV)
        anchor == element.title
        titled == Put(priced, k_title,
                      IF anchor.found THEN StrV(Strip(anchor.text)) ELSE NoneV)
        image == element.image
        pictured == IF image.found /\ image.src # <<>>
                    THEN Put(titled, k_thumbnail, StrV(s_http \o image.src))
                    ELSE titled
        attributed == Update(pictured,
                        [k \in {Replace(key) : key \in Range(DATA_KEYS)} |->
                            DataAttr(element, CHOOSE key \in Range(DATA_KEYS) : Replace(key) = k)])
        described == ParagraphsInto(attributed, element.paragraphs)
        numbered == Update(described,
                        [key \in Range(NUMERIC_KEYS) |-> IntV(ParseNumber(KwargsGet(described, key)))])
    IN IF price.found /\ ~price.span THEN ParseRaised("AttributeError")
       ELSE IF \E i \in 1..Len(element.paragraphs) : ~element.paragraphs[i].classed
       THEN ParseRaised("TypeError")
       ELSE [raised |-> "none", fields |-> AutoRecordInit(TitleInto(numbered, auto_model))]

\* the outcome of reading a property of a record
Value(v) == [raised |-> "none", value |-> v]
Raise(exception) == [raised |-> exception, value |-> NoneV]

\* AutoRecord.sale_type: fields['title'].lower() of a title that is None
\* raises AttributeError
SaleType(fields) ==
    LET sale_type == Lower(fields[k_sale_type].str)
        title == fields[k_title]
    IN IF title.type # "str" THEN Raise("AttributeError")
       ELSE IF Contains(s_certified, Lower(title.str)) \/ sale_type = s_certified
       THEN Value(StrV(s_C))
       ELSE IF sale_type = s_used THEN Value(StrV(s_U))
       ELSE IF sale_type = s_new THEN Value(StrV(s_N))
       ELSE Value(StrV(sale_type))

\* AutoRecord.title
DisplayTitle(fields) ==
    IF fields[k_style] # StrV(s_Unknown) THEN Value(fields[k_style])
    ELSE Value(fields[k_title])

\* AutoRecord.dealer: fields['dealer-name']
Dealer(fields) ==
    IF h_dealer_name \in DOMAIN fields THEN Value(fields[h_dealer_name])
    ELSE Raise("KeyError")

\* AutoRecord.listing_id and AutoRecord.owner_id
ListingId(fields) == Value(fields[k_listing_id])
OwnerId(fields) == Value(fields[k_owner_id])

\* the properties read of a record
Properties == {"sale_type", "title", "dealer", "listing_id", "owner_id"}

\* getattr(record, property)
Property(fields, property) ==
    IF property = "sale_type" THEN SaleType(fields)
    ELSE IF property = "title" THEN DisplayTitle(fields)
    ELSE IF property = "dealer" THEN Dealer(fields)
    ELSE IF property = "listing_id" THEN ListingId(fields)
    ELSE OwnerId(fields)

\* ------------------------------------------------------- derived values

\* a bug Round could have: the fraction is cut off
RoundDown(n, d) == n \div d

\* round(x) of Python 2 for x = n / d, d > 0: to the nearest integer, a
\* half away from zero
Round(n, d) ==
    IF n >= 0 THEN (2 * n + d) \div (2 * d)
    ELSE -((2 * (-n) + d) \div (2 * d))

\* AutoRecord.age
Age(record, year_now) == year_now - record.year

\* AutoRecord.quality: int(round(price / 500.0 - mileage / 10000.0 - age / 2.0)).
\* The three quotients are added over the denominator 10000; for prices
\* that are multiples of 250 and mileages that are multiples of 5000 the
\* floats are exact.
Quality(record, year_now) ==
    Round(20 * record.price - record.mileage - 5000 * Age(record, year_now), 10000)

\* the years datetime.datetime.now().year gives for CURRENT_YEAR
CurrentYears == {2024, 2025}

\* the price, mileage and year of the records whose quality is read
Cars ==
    {[price |-> p, mileage |-> m, year |-> y] :
        p \in {0, 250, 15000}, m \in {0, 5000, 40000}, y \in {0, 2015, 2024}}

\* the columns averaged: a numeric column with a field (price), a
\* non-numeric one (dealer) and the image column
PriceColumn == [name |-> k_price, number |-> TRUE]
DealerColumn == [name |-> c_dealer, number |-> FALSE]
ImageColumn == [name |-> c_image, number |-> TRUE]
StatColumns == {PriceColumn, DealerColumn, ImageColumn}

\* what AutoRecord.data(column) gives for the records of a pool: None when
\* the record has no field of the column's name
ColumnValues(column) ==
    IF column = PriceColumn THEN {NoneV, IntV(10), IntV(25)}
    ELSE IF column = DealerColumn THEN {NoneV, StrV(s_Joe), StrV(s_joe)}
    ELSE {NoneV}

\* A row as get_average and get_stats see it: its kind, the column asked
\* for and, for a group, AutoRecord.data(column) of each record of its
\* pool. The pool of a leaf is the leaf itself.
Nodes ==
    UNION {{[kind |-> "group", column |-> c, pool |-> p] :
               p \in SeqsUpTo(ColumnValues(c), MaxPool)} : c \in StatColumns}
    \cup {[kind |-> "leaf", column |-> c, pool |-> <<>>] : c \in StatColumns}

\* the outcome of get_average and of get_values: the values, a number n / d
\* or a string, or the exception raised
Outcome(type, n, d, str) ==
    [raised |-> "none", type |-> type, n |-> n, d |-> d, str |-> str, values |-> <<>>]
Raises(exception) ==
    [raised |-> exception, type |-> "None", n |-> 0, d |-> 1, str |-> <<>>, values |-> <<>>]

\* sum(values) of ints
RECURSIVE Sum(_)
Sum(values) == IF values = <<>> THEN 0 ELSE Head(values).int + Sum(Tail(values))

\* the fixed label of a column whose values differ
s_Mixed == <<"-","-","-">>

\* TreeRow.get_values(column): r.data(column) of the records of the pool
\* that is not None; the record of a leaf's pool is the leaf, whose data is
\* AutoRow.data
GetValues(node) ==
    IF node.kind = "leaf"
    THEN LET data == AutoRowData(node, node.column.name)
         IN IF data.raised # "none" THEN Raises(data.raised)
            ELSE [Outcome("list", 0, 1, <<>>) EXCEPT
                    !.values = IF data.value = None THEN <<>> ELSE <<StrV(data.value)>>]
    ELSE [Outcome("list", 0, 1, <<>>) EXCEPT
            !.values = SelectSeq(node.pool, LAMBDA v : v # NoneV)]

\* TreeColumn.get_average(values)
ColumnGetAverage(column, values) ==
    IF column.number
    THEN IF values = <<>> THEN Outcome("int", 0, 1, <<>>)
         ELSE IF \E i \in 1..Len(values) : values[i].type # "int" THEN Raises("TypeError")
         ELSE Outcome("float", Sum(values), Len(values), <<>>)
    ELSE IF Cardinality(Range(values)) = 1 THEN Outcome(values[1].type, values[1].int, 1, values[1].str)
    ELSE Outcome("str", 0, 1, s_Mixed)

\* TreeRow.get_average(column)
GetAverage(node) ==
    LET got == GetValues(node)
    IN IF got.raised # "none" THEN got ELSE ColumnGetAverage(node.column, got.values)

\* min(values) and max(values) of ints
Min(values) == CHOOSE v \in {values[i].int : i \in 1..Len(values)} :
                  \A i \in 1..Len(values) : v <= values[i].int
Maximum(values) == CHOOSE v \in {values[i].int : i \in 1..Len(values)} :
                  \A i \in 1..Len(values) : v >= values[i].int

\* the dictionary get_stats returns: stddev is kept as its square, the
\* argument of math.sqrt, and median as a number of halves
Stats(count, mean, minimum, maximum, range, halves, variance) ==
    [raised |-> "none", count |-> count, mean |-> mean, minimum |-> minimum,
     maximum |-> maximum, range |-> range, median_halves |-> halves, variance |-> variance]
StatsRaises(exception) == [Stats(0, 0, 0, 0, 0, 0, 0) EXCEPT !.raised = exception]

\* TreeRow.get_stats(column). With no value the dictionary of zeros is
\* built but not returned, and sum(values) / num_items divides by zero.
\* The divisions are those of Python 2 on ints.
GetStats(node) ==
    LET got == GetValues(node)
        values == got.values
    IN IF got.raised # "none" THEN StatsRaises(got.raised)
       ELSE IF values = <<>> THEN StatsRaises("ZeroDivisionError")
       ELSE IF \E i \in 1..Len(values) : values[i].type # "int" THEN StatsRaises("TypeError")
       ELSE LET num_items == Len(values)
                mean == Sum(values) \div num_items
                sq_diffs == [i \in 1..num_items |->
                               IntV((values[i].int - mean) * (values[i].int - mean))]
                minimum == Min(values)
                maximum == Maximum(values)
            IN Stats(num_items, mean, minimum, maximum, maximum - minimum,
                     (maximum - minimum) + 2 * minimum, Sum(sq_diffs) \div num_items)

\* ------------------------------------------------------------------ state

VARIABLES
    pc,           \* where the session is: "idle", in populate, "done", "raised"
    auto_models,  \* AutoQuery.auto_models
    records,      \* AutoQuery.records
    loadtime,     \* AutoQuery.loadtime: "None", or the call that stamped it
    progress,     \* Session.progress
    mi,           \* the index in auto_models of the model being paged
    page,         \* _iter_records: page
    num_pages,    \* _iter_records: num_pages
    result,       \* the list populate returned
    error,        \* the exception that left populate
    requests,     \* history: the page requests of this populate call
    reports,      \* history: the update_progress calls of this populate call
    yielded,      \* history: the progress values _iter_records yielded for this model
    overlap,      \* history: a page of this call yielded a record that was not added
    parsed_ids,   \* history: the listing ids parse_record returned in this populate call
    t_records,    \* TreeModel.records
    groupings,    \* TreeModel.groupings
    tree,         \* TreeModel.root and its descendants, by position
    last,         \* history: the last tree operation and the tree before it
    cache,        \* the cache file at AutoSet.path
    auto_set,     \* the AutoSet: makes, models, makes_by_id, models_by_id
    c_last,       \* history: the last catalog operation
    element,      \* the listing element handed to parse_record
    parsed,       \* the outcome of parse_record: the record's fields, or the exception
    reading,      \* history: the last property read of the record
    current_year, \* auto.CURRENT_YEAR
    node,         \* the row get_average and get_stats are called on
    car,          \* the record whose quality is read
    derived       \* history: the last derived value computed and its outcome

qvars == <<pc, auto_models, records, loadtime, progress, mi, page, num_pages,
           result, error, requests, reports, yielded, overlap, parsed_ids>>

tvars == <<t_records, groupings, tree, last>>

cvars == <<cache, auto_set, c_last>>

pvars == <<element, parsed, reading>>

dvars == <<current_year, node, car, derived>>

vars == <<qvars, tvars, cvars, pvars, dvars>>

\* Session.__init__, then AutoQuery.__init__
QInit ==
    /\ pc = "idle"
    /\ auto_models \in Queries
    /\ records = {}
    /\ loadtime = "None"
    /\ progress = <<>>
    /\ mi = 0
    /\ page = 1
    /\ num_pages = 1
    /\ result = <<>>
    /\ error = "none"
    /\ requests = <<>>
    /\ reports = <<>>
    /\ yielded = <<>>
    /\ overlap = FALSE
    /\ parsed_ids = {}

\* Session.__init__: tree_model = None
NoTree ==
    /\ t_records = <<>>
    /\ groupings = <<>>
    /\ tree = <<>>
    /\ last = [op |-> "none"]

\* no catalog operation has run
NoOp ==
    [op |-> "none", error |-> "none", fetches |-> 0, trace |-> <<>>,
     existed |-> FALSE, terms |-> <<>>, result |-> NoMatch]

\* the catalog is left alone
NoCatalog ==
    /\ cache = NoFile
    /\ auto_set = EmptyAutoSet
    /\ c_last = NoOp

\* parse_record has not run
NotParsed == [raised |-> "unparsed", fields |-> EmptyDict]

\* no property was read
NoReading == [property |-> "none", outcome |-> Value(NoneV)]

\* no listing is parsed
NoParse ==
    /\ element = [classes |-> <<"listing">>, price |-> NoPrice, title |-> NoAnchor,
                  image |-> NoImage, attrs |-> NoAttrs, paragraphs |-> <<>>]
    /\ parsed = NotParsed
    /\ reading = NoReading

\* no derived value was computed
NoCall ==
    [op |-> "none", age |-> 0, quality |-> 0, average |-> Raises("none"),
     stats |-> StatsRaises("none")]

\* no derived value is asked for
NoDerived ==
    /\ current_year = 2024
    /\ node = [kind |-> "leaf", column |-> ImageColumn, pool |-> <<>>]
    /\ car = [price |-> 0, mileage |-> 0, year |-> 0]
    /\ derived = NoCall

Init == QInit /\ NoTree /\ NoCatalog /\ NoParse /\ NoDerived

\* Session.populate(query) up to the entry of AutoQuery.populate. The query
\* is the one populated before (fresh = FALSE) or one built by
\* AutoQuery.__init__ (fresh = TRUE: records = set(), loadtime = None). The
\* progress table is reset and the accumulated records are cleared.
SessionPopulate(q, fresh) ==
    /\ pc \in {"idle", "done", "raised"}
    /\ ~fresh => q = auto_models
    /\ auto_models' = q
    /\ loadtime' = IF fresh \/ loadtime = "None" THEN "None" ELSE "earlier call"
    /\ progress' = [m \in Range(q) |-> Zero]
    /\ records' = Cleared(records)
    /\ mi' = 0
    /\ result' = <<>>
    /\ error' = "none"
    /\ requests' = <<>>
    /\ reports' = <<>>
    /\ yielded' = <<>>
    /\ overlap' = FALSE
    /\ parsed_ids' = {}
    /\ pc' = "for"
    /\ UNCHANGED <<page, num_pages, tvars, cvars, pvars, dvars>>

\* AutoQuery.populate: the for loop takes the next model, reports 0.0 and
\* starts its page iteration
ForNext ==
    /\ pc = "for"
    /\ mi < Len(auto_models)
    /\ mi' = mi + 1
    /\ progress' = [progress EXCEPT ![auto_models[mi + 1]] = Zero]
    /\ reports' = Append(reports, [mi |-> mi + 1, value |-> Zero])
    /\ page' = 1
    /\ num_pages' = 1
    /\ yielded' = <<>>
    /\ pc' = "while"
    /\ UNCHANGED <<auto_models, records, loadtime, result, error, requests, overlap, parsed_ids, tvars, cvars, pvars, dvars>>

\* One turn of the while loop of _iter_records with a page fetch that
\* returns a soup (ok) or None (urllib2.HTTPError): parse, count the pages
\* on page 1, yield; populate merges the records and reports the progress;
\* then the loop breaks on None or advances the page.
IterYield(soup, outcome) ==
    LET model == auto_models[mi]
        recs == IF soup.ok THEN FromListings(model, soup.listings, {}) ELSE {}
        pages == IF page = 1 THEN GetNumPages(soup) ELSE num_pages
        value == Progress(page, pages)
    IN /\ pc = "while"
       /\ page <= num_pages
       /\ requests' = Append(requests, [mi |-> mi, page |-> page, outcome |-> outcome,
                                         marker |-> MarkerRead(page, soup)])
       /\ num_pages' = pages
       /\ yielded' = Append(yielded, value)
       /\ records' = SetUpdate(records, recs)
       /\ overlap' = (overlap \/ Len(soup.listings) > Cardinality(recs)
                               \/ \E r \in recs : r \notin SetUpdate(records, recs))
       /\ parsed_ids' = parsed_ids \cup {soup.listings[k].listing_id : k \in 1..Len(soup.listings)}
       /\ progress' = [progress EXCEPT ![model] = value]
       /\ reports' = Append(reports, [mi |-> mi, value |-> value])
       /\ IF ~soup.ok
          THEN pc' = "for" /\ page' = page
          ELSE pc' = "while" /\ page' = NextPage(page)
       /\ UNCHANGED <<auto_models, loadtime, mi, result, error, tvars, cvars, pvars, dvars>>

PageOk == \E soup \in Soups : IterYield(soup, "ok")

\* urllib2.urlopen raised urllib2.HTTPError: get_page_response returns None
PageHttpError == IterYield(NoSoup, "http_error")

\* A fetch whose exception leaves populate: the response code is not 200
\* (RuntimeError), or urllib2.urlopen raised a urllib2.URLError that is not
\* an HTTPError (not caught by get_page_response)
IterRaise(outcome, exception) ==
    /\ pc = "while"
    /\ page <= num_pages
    /\ requests' = Append(requests, [mi |-> mi, page |-> page, outcome |-> outcome,
                                      marker |-> NoMarker])
    /\ error' = exception
    /\ pc' = "raised"
    /\ UNCHANGED <<auto_models, records, loadtime, progress, mi, page, num_pages,
                   result, reports, yielded, overlap, parsed_ids, tvars, cvars, pvars, dvars>>

PageNot200 == IterRaise("not_200", "RuntimeError")

PageUrlError == IterRaise("url_error", "URLError")

\* the while condition fails: the generator is exhausted
IterExhausted ==
    /\ pc = "while"
    /\ page > num_pages
    /\ pc' = "for"
    /\ UNCHANGED <<auto_models, records, loadtime, progress, mi, page, num_pages,
                   result, error, requests, reports, yielded, overlap, parsed_ids, tvars, cvars, pvars, dvars>>

\* AutoQuery.populate after the last model: stamp loadtime, sort, return
PopulateReturn ==
    /\ pc = "for"
    /\ mi = Len(auto_models)
    /\ loadtime' = "this call"
    /\ result' \in SortedLists(records)
    /\ pc' = "done"
    /\ UNCHANGED <<auto_models, records, progress, mi, page, num_pages, error,
                   requests, reports, yielded, overlap, parsed_ids, tvars, cvars, pvars, dvars>>

QNext ==
    \/ \E q \in Queries, fresh \in BOOLEAN : SessionPopulate(q, fresh)
    \/ ForNext
    \/ PageOk
    \/ PageHttpError
    \/ PageNot200
    \/ PageUrlError
    \/ IterExhausted
    \/ PopulateReturn

Next == QNext

Spec == Init /\ [][Next]_vars

\* every started step of the synchronous populate call is eventually taken
FairSpec == Spec /\ WF_vars(Next)

\* ------------------------------------------------------- the tree's actions

\* the row ids of the children of the root, in their order
RootOrder(t) == [i \in 1..Len(Children(t, <<>>)) |-> t[<<i>>].row_id]

\* TreeModel.__init__(records, directory): a new root, populated
TreeInit ==
    /\ QInit
    /\ auto_models = <<>>
    /\ t_records \in RecordLists
    /\ groupings = DefaultGroupings
    /\ \E enum \in Enumerations(t_records, groupings) :
          tree = TreeOf(Populate(RootRow, <<>>, t_records, groupings, enum))
    /\ last = [op |-> "init"]
    /\ NoCatalog
    /\ NoParse
    /\ NoDerived

\* TreeRow.set_hidden
SetHidden(pos, hidden) ==
    /\ hidden => Cardinality({p \in DOMAIN tree : tree[p].hidden}) < MaxHidden
    /\ tree[pos].hidden # hidden
    /\ tree' = [tree EXCEPT ![pos].hidden = hidden]
    /\ last' = [op |-> "set_hidden"]
    /\ UNCHANGED <<qvars, cvars, pvars, dvars, t_records, groupings>>

\* The tree is rebuilt over the same records: the groupings of the model
\* are assigned and RootRow.populate(model, None) runs again. The root row
\* stays the same object; its descendants are created anew.
Rebuild(g, enum) ==
    /\ groupings' = g
    /\ tree' = TreeOf(Populate(tree[<<>>], <<>>, t_records, g, enum))
    /\ last' = [op |-> "populate",
                same |-> (g = groupings),
                reordered |-> (RootOrder(tree') # RootOrder(tree)),
                carried |-> (\E path \in RowPaths(tree') : path \in HiddenPaths(tree))]
    /\ UNCHANGED <<qvars, cvars, pvars, dvars, t_records>>

\* AutoRow.data(column) is called on the leaf at pos
Data(pos, column) ==
    /\ tree[pos].kind = "leaf"
    /\ last' = [op |-> "data", pos |-> pos, column |-> column,
                data |-> AutoRowData(tree[pos], column)]
    /\ UNCHANGED <<qvars, cvars, pvars, dvars, t_records, groupings, tree>>

TreeNext ==
    \/ \E pos \in DOMAIN tree, hidden \in BOOLEAN : SetHidden(pos, hidden)
    \/ \E pos \in DOMAIN tree, column \in LeafColumns : Data(pos, column)
    \/ \E g \in Groupings : \E enum \in Enumerations(t_records, g) : Rebuild(g, enum)

TreeSpec == TreeInit /\ [][TreeNext]_vars

\* --------------------------------------------------- the catalog's actions

\* a session starts: the cache file is whatever the disk holds
CatInit ==
    /\ QInit
    /\ auto_models = <<>>
    /\ NoTree
    /\ cache \in InitialCaches
    /\ auto_set = EmptyAutoSet
    /\ c_last = NoOp
    /\ NoParse
    /\ NoDerived

\* the orders in which set(makes) can be enumerated
MakeOrders(makes) == Orderings(MakeSet(makes, {}))

\* AutoSet.load
Load ==
    /\ c_last' = [NoOp EXCEPT !.op = "load", !.error = LoadError(cache), !.trace = <<"load">>]
    /\ IF LoadError(cache) # "none"
       THEN auto_set' = auto_set
       ELSE \E order \in MakeOrders(LoadMakes(cache)) :
               auto_set' = AutoSetPopulate(LoadMakes(cache), order)
    /\ UNCHANGED <<qvars, tvars, pvars, dvars, cache>>

\* AutoSet.save
Save ==
    /\ cache' = Saved(auto_set)
    /\ c_last' = [NoOp EXCEPT !.op = "save", !.trace = <<"save">>]
    /\ UNCHANGED <<qvars, tvars, pvars, dvars, auto_set>>

\* AutoSet.refresh(session)
Refresh(first, rest) ==
    LET made == RefreshMakes(first, rest)
    IN /\ c_last' = [NoOp EXCEPT !.op = "refresh", !.error = made.error,
                                 !.trace = <<"refresh">>]
       /\ IF made.error # "none"
          THEN auto_set' = auto_set
          ELSE \E order \in MakeOrders(made.makes) :
                  auto_set' = AutoSetPopulate(made.makes, order)
       /\ UNCHANGED <<qvars, tvars, pvars, dvars, cache>>

\* AutoSet.auto_load(session): a new AutoSet, loaded when the cache file
\* exists, else refreshed and saved. The caller keeps the set it had when
\* auto_load raises.
AutoLoad(first, rest) ==
    IF cache.kind # "missing"
    THEN /\ first = NoFetch
         /\ c_last' = [NoOp EXCEPT !.op = "auto_load", !.error = LoadError(cache),
                                   !.trace = <<"load">>, !.existed = TRUE]
         /\ IF LoadError(cache) # "none"
            THEN auto_set' = auto_set
            ELSE \E order \in MakeOrders(LoadMakes(cache)) :
                    auto_set' = AutoSetPopulate(LoadMakes(cache), order)
         /\ UNCHANGED <<qvars, tvars, pvars, dvars, cache>>
    ELSE LET made == RefreshMakes(first, rest)
         IN /\ c_last' = [NoOp EXCEPT !.op = "auto_load", !.error = made.error,
                                      !.fetches = made.fetches,
                                      !.trace = IF made.error # "none" THEN <<"refresh">>
                                                ELSE <<"refresh", "save">>]
            /\ IF made.error # "none"
               THEN UNCHANGED <<auto_set, cache>>
               ELSE \E order \in MakeOrders(made.makes) :
                       /\ auto_set' = AutoSetPopulate(made.makes, order)
                       /\ cache' = Saved(auto_set')
            /\ UNCHANGED <<qvars, tvars, pvars, dvars>>

\* AutoSet.get(make_term, model_term)
Get(make_term, model_term) ==
    /\ c_last' = [NoOp EXCEPT !.op = "get", !.terms = <<make_term, model_term>>,
                              !.result = AutoSetGet(auto_set, make_term, model_term)]
    /\ UNCHANGED <<qvars, tvars, pvars, dvars, cache, auto_set>>

CatNext ==
    \/ Load
    \/ Save
    \/ \E first \in MakeFetches : \E rest \in RestFetches(first) : Refresh(first, rest)
    \/ \E first \in (IF cache.kind = "missing" THEN MakeFetches ELSE {NoFetch}) :
          \E rest \in RestFetches(first) : AutoLoad(first, rest)
    \/ \E terms \in Lookups : Get(terms[1], terms[2])

CatSpec == CatInit /\ [][CatNext]_vars

\* ---------------------------------------------------- the parser's actions

\* a listing element of a result page of the Toyota Camry, not yet parsed
ParseInit ==
    /\ QInit
    /\ auto_models = <<>>
    /\ NoTree
    /\ NoCatalog
    /\ element \in Elements
    /\ parsed = NotParsed
    /\ reading = NoReading
    /\ NoDerived

\* AutoRecord.parse_record(auto_model, element)
Parse ==
    /\ parsed = NotParsed
    /\ parsed' = ParseRecord(ToyotaCamry, element)
    /\ UNCHANGED <<qvars, tvars, cvars, dvars, element, reading>>

\* a property of the parsed record is read
Read(property) ==
    /\ parsed.raised = "none"
    /\ reading' = [property |-> property, outcome |-> Property(parsed.fields, property)]
    /\ UNCHANGED <<qvars, tvars, cvars, dvars, element, parsed>>

ParseNext ==
    \/ Parse
    \/ \E property \in Properties : Read(property)

ParseSpec == ParseInit /\ [][ParseNext]_vars

\* ------------------------------------------------- derived values' actions

\* a record, a row with its column, and the year the module was loaded in
DerivedInit ==
    /\ QInit
    /\ auto_models = <<>>
    /\ NoTree
    /\ NoCatalog
    /\ NoParse
    /\ current_year \in CurrentYears
    /\ node \in Nodes
    /\ car \in Cars
    /\ derived = NoCall

\* record.quality is read
ReadQuality ==
    /\ derived' = [NoCall EXCEPT !.op = "quality", !.age = Age(car, current_year),
                                 !.quality = Quality(car, current_year)]
    /\ UNCHANGED <<qvars, tvars, cvars, pvars, current_year, node, car>>

\* row.get_average(column) is called
CallGetAverage ==
    /\ derived' = [NoCall EXCEPT !.op = "get_average", !.average = GetAverage(node)]
    /\ UNCHANGED <<qvars, tvars, cvars, pvars, current_year, node, car>>

\* row.get_stats(column) is called
CallGetStats ==
    /\ derived' = [NoCall EXCEPT !.op = "get_stats", !.stats = GetStats(node)]
    /\ UNCHANGED <<qvars, tvars, cvars, pvars, current_year, node, car>>

DerivedNext ==
    \/ ReadQuality
    \/ CallGetAverage
    \/ CallGetStats

DerivedSpec == DerivedInit /\ [][DerivedNext]_vars

\* ------------------------------------------------------ pagination claims

\* the page requests of the model being paged
Mine == SelectSeq(requests, LAMBDA q : q.mi = mi)

\* the page iteration of the current model has ended without an exception
IterationEnded == pc \in {"for", "done"} /\ mi >= 1

\* C1: the page iteration of a model terminates and yields at most
\* num_pages tuples; num_pages is at least 1 and does not change after
\* page 1. Every turn of the loop advances the page towards num_pages + 1,
\* and under fair scheduling the loop is left.
C1_PagesTerminate ==
    /\ [](num_pages >= 1 /\ Len(yielded) <= num_pages /\ page <= num_pages + 1)
    /\ [][(pc = "while" /\ page > 1) => num_pages' = num_pages]_vars
    /\ [][(pc = "while" /\ pc' = "while") => page' = page + 1]_vars
    /\ (pc = "while") ~> (pc # "while")

\* C1 witness: an iteration that ended after yielding each of two pages
C1_Witness == IterationEnded /\ num_pages >= 2 /\ Len(yielded) = num_pages

\* C2: every yielded progress value is page / num_pages and lies in (0, 1],
\* successive values do not decrease, and after an iteration whose every
\* fetch succeeded the last value is 1.
C2_Progress ==
    /\ \A i \in 1..Len(yielded) :
          /\ yielded[i] = [n |-> Mine[i].page, d |-> num_pages]
          /\ 0 < yielded[i].n
          /\ yielded[i].n <= yielded[i].d
          /\ i < Len(yielded) => FracLeq(yielded[i], yielded[i + 1])
    /\ (IterationEnded /\ \A i \in 1..Len(Mine) : Mine[i].outcome = "ok")
          => (yielded # <<>> /\ yielded[Len(yielded)].n = yielded[Len(yielded)].d)

\* C2 witness: a full traversal of two pages
C2_Witness ==
    /\ IterationEnded
    /\ Len(yielded) >= 2
    /\ \A i \in 1..Len(Mine) : Mine[i].outcome = "ok"

\* C3: no kind of page-fetch failure makes populate raise: the failing
\* model's page sequence ends at that attempt. (The code lets a response
\* code other than 200 and a URLError leave populate.)
C3_FailuresAbsorbed ==
    \A i \in 1..Len(requests) :
        requests[i].outcome # "ok"
            => /\ ~(pc = "raised" /\ i = Len(requests))
               /\ \A j \in (i + 1)..Len(requests) : requests[j].mi # requests[i].mi

\* C4: no two records of the accumulated set, and no two of the returned
\* list, have the same listing id.
C4_Dedup ==
    /\ \A a, b \in records : a.listing_id = b.listing_id => a = b
    /\ \A i, j \in 1..Len(result) : result[i].listing_id = result[j].listing_id => i = j

\* C4 witness: populate returned two records or more over two models after
\* a page had yielded a record whose listing id was already held
C4_Witness == pc = "done" /\ overlap /\ Len(result) >= 2 /\ mi = 2

\* C5: when the first page fetch fails for every model, populate returns
\* an empty list without failing, and every model has a report after its
\* 0% report. (Fails on the code for the failures of C3.)
C5_AllFirstPagesFail ==
    (/\ pc \in {"done", "raised"}
     /\ requests # <<>>
     /\ \A i \in 1..Len(requests) : requests[i].outcome # "ok")
        => /\ pc = "done"
           /\ result = <<>>
           /\ \A k \in 1..Len(auto_models) :
                 \E i, j \in 1..Len(reports) :
                     /\ i < j
                     /\ reports[i] = [mi |-> k, value |-> Zero]
                     /\ reports[j].mi = k

\* C21: populate returns one record for each listing id parsed during the
\* call and no other record, in an order that does not decrease by
\* displayed title; loadtime is stamped by the call only once every model
\* of the query has been paged.
C21_PopulateResult ==
    /\ pc = "done"
          => /\ {result[k].listing_id : k \in 1..Len(result)} = parsed_ids
             /\ Len(result) = Cardinality(parsed_ids)
             /\ \A k \in 1..(Len(result) - 1) :
                    ~StrLess(Title(result[k + 1]), Title(result[k]))
    /\ loadtime = "this call"
          => /\ pc = "done"
             /\ \A k \in 1..Len(auto_models) : \E i \in 1..Len(requests) : requests[i].mi = k

\* C21 witness: a call over two models returned three records in title order
C21_Witness ==
    /\ pc = "done"
    /\ mi = 2
    /\ Len(result) = 3
    /\ loadtime = "this call"

\* C25: within a populate call the pages requested for a model are 1, 2,
\* ..., k in that order, k being at most num_pages; a page is requested
\* only after the page before it was answered, parsed and merged; and the
\* requests of a model all precede those of the models after it. The
\* sequence stops short of num_pages only at a fetch that failed.
C25_PageSequence ==
    /\ \A i \in 1..Len(requests) :
          IF i > 1 /\ requests[i - 1].mi = requests[i].mi
          THEN /\ requests[i].page = requests[i - 1].page + 1
               /\ requests[i - 1].outcome = "ok"
          ELSE /\ requests[i].page = 1
               /\ i > 1 => requests[i - 1].mi < requests[i].mi
    /\ Len(Mine) <= num_pages
    /\ (IterationEnded /\ \A i \in 1..Len(Mine) : Mine[i].outcome = "ok")
          => Len(Mine) = num_pages
    /\ pc # "raised" => parsed_ids = {r.listing_id : r \in records}

\* C25 witness: two pages of the first model, then a page of the second
C25_Witness ==
    /\ Len(requests) = 3
    /\ requests[2] = [mi |-> 1, page |-> 2, outcome |-> "ok", marker |-> NoMarker]
    /\ requests[3].mi = 2

\* the request of page 1 of the model being paged
FirstPage == SelectSeq(Mine, LAMBDA q : q.page = 1)

\* the least number of pages of NUM_RECORDS listings that hold total
\* listings, and at least one
PagesFor(total) ==
    CHOOSE n \in 1..(total + 1) :
        /\ n * NUM_RECORDS >= total
        /\ n = 1 \/ (n - 1) * NUM_RECORDS < total

\* C20: once the first page of a model was requested, num_pages is
\* max(1, ceil(total / 100)) for the total the first page announces, and 1
\* when the first page announces none or its fetch failed; the requests of
\* the later pages leave it at that value.
C20_FirstPageOnly ==
    (mi >= 1 /\ FirstPage # <<>>)
        => LET first == FirstPage[1]
           IN num_pages = IF first.outcome # "ok" \/ first.marker = NoMarker
                          THEN 1
                          ELSE PagesFor(first.marker)

\* a second page was fetched after a first page that announced 101 cars
C20_Witness ==
    /\ FirstPage # <<>>
    /\ FirstPage[1].marker = NUM_RECORDS + 1
    /\ Len(Mine) = 2
    /\ Mine[2].outcome = "ok"
    /\ num_pages = 2

\* ------------------------------------------------------------ tree claims

\* C6: a hidden row counts 0 records, and a visible row with children
\* counts the sum of its children's counts.
C6_Aggregation ==
    \A pos \in DOMAIN tree :
        /\ tree[pos].hidden => NumRecords(tree, pos) = 0
        /\ (~tree[pos].hidden /\ Children(tree, pos) # <<>>)
              => NumRecords(tree, pos) =
                    SumSeq([i \in 1..tree[pos].children |-> NumRecords(tree, Append(pos, i))])

\* C6 witness: a visible row with a hidden child and a visible child
C6_Witness ==
    \E pos \in DOMAIN tree :
        /\ ~tree[pos].hidden
        /\ \E i, j \in 1..tree[pos].children :
              tree[Append(pos, i)].hidden /\ ~tree[Append(pos, j)].hidden

\* C7: a leaf counts 1 record when it is not hidden and 0 when it is, so
\* with no row hidden the root counts the records of the tree. (The code
\* counts 0 for every row without children.)
C7_LeafCounts ==
    /\ \A pos \in DOMAIN tree :
          tree[pos].kind = "leaf"
              => NumRecords(tree, pos) = (IF tree[pos].hidden THEN 0 ELSE 1)
    /\ (tree # <<>> /\ \A pos \in DOMAIN tree : ~tree[pos].hidden)
          => NumRecords(tree, <<>>) = Len(t_records)

\* C8: get_is_hidden is true exactly when the row or one of its ancestors
\* up to the root is hidden.
C8_InheritedHidden ==
    \A pos \in DOMAIN tree :
        GetIsHidden(tree, pos) <=> \E k \in 0..Len(pos) : tree[SubSeq(pos, 1, k)].hidden

\* C8 witness: a row that is hidden only through an ancestor
C8_Witness ==
    \E pos \in DOMAIN tree :
        ~tree[pos].hidden /\ Len(pos) >= 2 /\ GetIsHidden(tree, pos)

\* C9: populating the tree again from the same records and the same
\* grouping columns gives the same set of row paths, whatever the order in
\* which the grouping values are enumerated.
C9_PathStability ==
    [][(last'.op = "populate" /\ groupings' = groupings)
          => RowPaths(tree') = RowPaths(tree)]_vars

\* C9 witness: the tree was populated again with the same grouping columns
\* and the groups under the root came in another order
C9_Witness == last.op = "populate" /\ last.same /\ last.reordered

\* C10: after a rebuild with other grouping columns, every row whose row
\* path is that of a row hidden before the rebuild is hidden. (The code
\* creates every row below the root anew, not hidden.)
C10_HiddenSurvivesRegrouping ==
    [][(last'.op = "populate" /\ groupings' # groupings)
          => \A pos \in DOMAIN tree' :
                GetRowPath(tree', pos) \in HiddenPaths(tree) => tree'[pos].hidden]_vars


\* C22: with k grouping columns, a row at depth d, 1 <= d <= k, is a group
\* of the d-th grouping column, the rows at depth k + 1 are leaves that
\* wrap a record each, and there is no leaf at another depth and no row
\* below the leaves; with k = 0 the children of the root are leaves.
C22_Shape ==
    LET k == Len(groupings)
    IN \A pos \in DOMAIN tree :
          LET d == Len(pos)
              row == tree[pos]
          IN /\ d <= k + 1
             /\ d = 0 => row.kind = "root"
             /\ (1 <= d /\ d <= k)
                   => (row.kind = "group" /\ row.column = groupings[d] /\ row.depth = d)
             /\ d = k + 1 => (row.kind = "leaf" /\ row.record # NoRecord /\ row.children = 0)
             /\ row.kind = "leaf" => d = k + 1

\* C22 witness: a tree without grouping columns whose root has two leaves,
\* built after a tree of two grouping columns
C22_Witness ==
    /\ last.op = "populate"
    /\ groupings = <<>>
    /\ tree[<<>>].children = 2
    /\ tree[<<2>>].kind = "leaf"

\* the leaves of the tree
Leaves == {pos \in DOMAIN tree : tree[pos].kind = "leaf"}

\* C26: every record of the root's pool is wrapped by exactly one leaf; the
\* pools of the child groups of a group are pairwise disjoint, their union
\* is the pool of the group, and the pool of a child is made of the records
\* of the parent's pool whose value for the grouping column is the value
\* the child is bound to.
C26_Partition ==
    /\ tree # <<>> => tree[<<>>].records = t_records
    /\ \A i \in 1..Len(t_records) :
          Cardinality({pos \in Leaves : tree[pos].record = t_records[i]}) = 1
    /\ \A pos \in DOMAIN tree :
          Len(pos) < Len(groupings)
            => LET kids == Children(tree, pos)
                   pool(i) == Range(tree[kids[i]].records)
               IN /\ \A i, j \in 1..Len(kids) : i # j => pool(i) \cap pool(j) = {}
                  /\ UNION {pool(i) : i \in 1..Len(kids)} = Range(tree[pos].records)
                  /\ \A i \in 1..Len(kids) :
                        tree[kids[i]].records =
                            SelectSeq(tree[pos].records,
                                      LAMBDA r : RecordData(r, groupings[Len(pos) + 1])
                                                    = tree[kids[i]].matcher)

\* C26 witness: three records under two dealer groups
C26_Witness ==
    /\ groupings = DefaultGroupings
    /\ Len(t_records) = 3
    /\ tree[<<>>].children = 2
    /\ Cardinality(Leaves) = 3

\* C27: no two rows of the tree have the same row path. (Fails on the
\* code: the row id of a row is lowercased, so two groups whose values, or
\* two leaves whose listing ids, differ only in letter case have one path.)
C27_UniquePaths ==
    \A p, q \in DOMAIN tree : GetRowPath(tree, p) = GetRowPath(tree, q) => p = q

\* C29: in a tree grouped by the dealer column first, two records whose
\* markup carried different dealer names are in different dealer groups,
\* and the value a dealer group is bound to is the dealer name of its
\* records. (Fails on the code: the column reads the field 'dealer', the
\* dealer name of the markup is stored in the field 'dealer-name'.)
C29_DealerGroups ==
    (groupings # <<>> /\ groupings[1] = c_dealer)
        => /\ \A p, q \in Leaves :
                 tree[p].record.dealer_name # tree[q].record.dealer_name => p[1] # q[1]
           /\ \A i \in 1..tree[<<>>].children :
                 \A r \in Range(tree[<<i>>].records) : tree[<<i>>].matcher = r.dealer_name

\* C19: the data of a leaf for a column other than the image column is
\* the value of the record the leaf wraps for that column (for the title
\* column the style when known, else the raw title), and obtaining it
\* raises nothing.
C19_LeafData ==
    (last.op = "data" /\ last.column # c_image)
        => LET record == tree[last.pos].record
           IN /\ last.data.raised = "none"
              /\ last.data.value = IF last.column = c_title THEN Title(record)
                                   ELSE RecordData(record, last.column)

\* --------------------------------------------------------- catalog claims

\* the (token, label) pairs of the makes of a catalog
MakePairs(set) == {<<k.token, k.label>> : k \in Range(set.makes)}

\* the (token, label) pairs of its models
ModelPairs(set) == {<<m.token, m.label>> : m \in set.models}

\* its models, each with the make it belongs to
Association(set) == {<<m.token, m.label, m.make.token, m.make.label>> : m \in set.models}

\* a catalog operation that returned
Returned(ops) == c_last.op \in ops /\ c_last.error = "none"

\* C11: loading the file a catalog was saved to yields a catalog with the
\* same make pairs, the same model pairs and the same model-to-make
\* association. (Fails on the code when two models of different makes have
\* the same unique id: which of them the set of models keeps depends on
\* the order in which the set of makes is enumerated.)
C11_RoundTrip ==
    [][(c_last.op = "save" /\ c_last'.op = "load" /\ c_last'.error = "none")
          => /\ MakePairs(auto_set') = MakePairs(auto_set)
             /\ ModelPairs(auto_set') = ModelPairs(auto_set)
             /\ Association(auto_set') = Association(auto_set)]_vars

\* the entries a key can denote in a catalog: the makes, as
\* <<"make", token, <<>>>>, and the models of the makes, as
\* <<"model", make token, model token>>, each with its unique id
Entries(set) ==
    {<<"make", k.token, <<>>, MakeUuid(k)>> : k \in Range(set.makes)}
        \cup {<<"model", m.make.token, m.token, ModelUuid(m)>> :
                 m \in Range(Flatten(set.makes))}

\* C28: in any catalog two models with different (make token, model token)
\* pairs have different unique ids and no model's unique id is a make's,
\* so that every model of every make in makes is a member of models and a
\* key denotes at most one entry. (Fails on the code: the unique id joins
\* the two tokens with "_", which the tokens may hold themselves.)
C28_UniqueIds ==
    /\ \A e, f \in Entries(auto_set) : e[4] = f[4] => e = f
    /\ \A m \in Range(Flatten(auto_set.makes)) :
          \E n \in auto_set.models : n.make.token = m.make.token /\ n.token = m.token

\* C12: in a catalog produced by load or by refresh every make token and
\* model token is its own lowercase form and none is "all". (load takes
\* the tokens of the cache file as they are.)
C12_TokensNormalised ==
    Returned({"load", "refresh", "auto_load"})
        => /\ \A k \in Range(auto_set.makes) : k.token = Lower(k.token) /\ k.token # s_all
           /\ \A m \in auto_set.models : m.token = Lower(m.token) /\ m.token # s_all

\* C13: after load, refresh or populate every model of the catalog has as
\* its make exactly one member of makes, makes_by_id maps exactly the
\* unique ids of the makes to those makes, and models_by_id maps exactly
\* the unique ids of the models to those models.
C13_CatalogConsistent ==
    /\ \A m \in auto_set.models :
          Cardinality({i \in 1..Len(auto_set.makes) : auto_set.makes[i] = m.make}) = 1
    /\ DOMAIN auto_set.makes_by_id = {MakeUuid(k) : k \in Range(auto_set.makes)}
    /\ \A k \in Range(auto_set.makes) : auto_set.makes_by_id[MakeUuid(k)] = k
    /\ DOMAIN auto_set.models_by_id = {ModelUuid(m) : m \in auto_set.models}
    /\ \A m \in auto_set.models : auto_set.models_by_id[ModelUuid(m)] = m

\* C13 witness: a refresh (within auto_load) over a drop-down that names
\* a make twice, with models found
C13_Witness ==
    /\ Returned({"auto_load"})
    /\ c_last.fetches = 3
    /\ Len(auto_set.makes) = 1
    /\ auto_set.models # {}

\* C14: get returns a model only if the model term is the model's token,
\* label or unique id and the make term is the token, label or unique id
\* of the model's make, compared exactly; it returns None when no make
\* matches and when the make found has no matching model.
C14_Resolve ==
    c_last.op = "get"
        => LET make_term == c_last.terms[1]
               model_term == c_last.terms[2]
               M == c_last.result
               make == GetMake(auto_set, make_term)
           IN /\ M # NoMatch
                    => /\ model_term \in {M.token, M.label, ModelUuid(M)}
                       /\ make_term \in {M.make.token, M.make.label, MakeUuid(M.make)}
                       /\ M.make \in Range(auto_set.makes)
              /\ (\A k \in Range(auto_set.makes) :
                      make_term \notin {k.token, k.label, MakeUuid(k)}) => M = NoMatch
              /\ (make # NoMatch /\ \A i \in 1..Len(make.models) :
                      model_term \notin {make.models[i].token, make.models[i].label,
                                         make.token \o <<"_">> \o make.models[i].token})
                    => M = NoMatch

\* C14 witness: a model found by the label of its make and its unique id
C14_Witness ==
    /\ c_last.op = "get"
    /\ c_last.result # NoMatch
    /\ c_last.terms[1] = c_last.result.make.label
    /\ c_last.terms[2] = ModelUuid(c_last.result)

\* the cache file cannot be deserialized
Malformed(file) ==
    \/ file.kind = "text"
    \/ file.kind = "json" /\ \E i \in 1..Len(file.data) : ~Deserializable(file.data[i])

\* C15: with a cache file auto_load fetches nothing and loads the file, and
\* a malformed file makes it fail with no refresh; without a cache file it
\* runs refresh and then save, save writing the refreshed catalog. (Fails
\* on the code for the failures of C3: a fetch that raises ends auto_load
\* before save.)
C15_AutoLoad ==
    c_last.op = "auto_load"
        => IF c_last.existed
           THEN /\ c_last.fetches = 0
                /\ c_last.trace = <<"load">>
                /\ Malformed(cache) => c_last.error # "none"
           ELSE /\ c_last.fetches >= 1
                /\ c_last.trace = <<"refresh", "save">>
                /\ cache = Saved(auto_set)

\* ---------------------------------------------------------- parser claims

\* the integer formed by the digits of text in their order, 0 without digit
RECURSIVE NumberIn(_)
NumberIn(text) ==
    IF text = <<>> THEN 0
    ELSE LET front == NumberIn(SubSeq(text, 1, Len(text) - 1))
             c == text[Len(text)]
         IN IF IsDigit(<<c>>) THEN front * 10 + DigitValue(c) ELSE front

\* the text of the first paragraph of the element with the class, empty
\* when there is none
ParagraphOf(class) ==
    LET found == SelectSeq(element.paragraphs, LAMBDA g : class \in g.classes)
    IN IF found = <<>> THEN <<>> ELSE found[1].text

\* the text of the first paragraph "<label>: <value>", empty when there is none
Labelled(label) ==
    LET found == SelectSeq(element.paragraphs,
                           LAMBDA g : Lower(Partition(Strip(g.text), ":").head) = label
                                      /\ Partition(Strip(g.text), ":").sep # <<>>)
    IN IF found = <<>> THEN <<>> ELSE found[1].text

\* the value of a data attribute of the element, empty when it is absent
Attribute(key) == IF key \in DOMAIN element.attrs THEN element.attrs[key] ELSE <<>>

\* the tokens of the title of the element that are years
YearTokens == SelectSeq(Tokens(Strip(element.title.text)),
                        LAMBDA t : IsDigit(t) /\ NumberIn(t) > 1980)

\* C16: after parse_record the year, price, mileage, distance, current
\* index, listing id and owner id of the record are each the integer
\* formed by the digits of the raw string of the markup, 0 when it has no
\* digit (the year being the one of the title when the title names one).
C16_NumericFields ==
    parsed.raised = "none"
        => LET fields == parsed.fields
           IN /\ fields[k_year] = IntV(IF YearTokens # <<>> THEN NumberIn(YearTokens[1])
                                       ELSE NumberIn(Labelled(k_year)))
              /\ fields[k_price] = IntV(NumberIn(element.price.text))
              /\ fields[k_mileage] = IntV(NumberIn(Labelled(k_mileage)))
              /\ fields[k_distance] = IntV(NumberIn(ParagraphOf("distance")))
              /\ fields[h_current_index] = IntV(NumberIn(Attribute(h_current_index)))
              /\ ListingId(fields) = Value(IntV(NumberIn(Attribute(h_listing_id))))
              /\ OwnerId(fields) = Value(IntV(NumberIn(Attribute(h_owner_id))))

\* C17: whatever sub-elements and attributes the listing lacks,
\* parse_record raises nothing, every field that was not found holds its
\* default, and reading the sale type, the title and the dealer of the
\* record raises nothing.
C17_ParseMiss ==
    /\ parsed.raised \in {"unparsed", "none"}
    /\ parsed.raised = "none"
        => LET fields == parsed.fields
           IN /\ ~element.price.found => fields[k_price] = DEFAULTS[k_price]
              /\ ~element.title.found => fields[k_title] = DEFAULTS[k_title]
              /\ h_listing_id \notin DOMAIN element.attrs
                    => fields[k_listing_id] = DEFAULTS[k_listing_id]
              /\ h_owner_id \notin DOMAIN element.attrs
                    => fields[k_owner_id] = DEFAULTS[k_owner_id]
              /\ k_engine \notin DOMAIN element.attrs
                    => fields[k_engine] = DEFAULTS[k_engine]
              /\ ParagraphOf("distance") = <<>> => fields[k_distance] = DEFAULTS[k_distance]
              /\ Labelled(k_mileage) = <<>> => fields[k_mileage] = DEFAULTS[k_mileage]
    /\ reading.property \in {"sale_type", "title", "dealer"}
        => reading.outcome.raised = "none"

\* C18: when the listing has a title, the year of the record is the first
\* all-digit token of the title above 1980 if there is one, its style is
\* the tokens left, joined by single spaces, after the tokens equal in any
\* case to the make label, the model label, "used", "new", "certified" or a
\* detected year are removed, and the title the record displays is that
\* style whenever one was produced.
C18_TitleHeuristics ==
    (parsed.raised = "none" /\ element.title.found /\ Strip(element.title.text) # <<>>)
        => LET fields == parsed.fields
               tokens == Tokens(Strip(element.title.text))
               known == {Lower(ToyotaCamry.make.label), Lower(ToyotaCamry.label),
                         s_used, s_new, s_certified} \cup Range(YearTokens)
               left == SelectSeq(tokens, LAMBDA t : Lower(t) \notin known)
           IN /\ YearTokens # <<>> => fields[k_year] = IntV(NumberIn(YearTokens[1]))
              /\ left # <<>> => /\ fields[k_style] = StrV(Join(<<" ">>, left))
                                /\ DisplayTitle(fields) = Value(StrV(Join(<<" ">>, left)))

\* --------------------------------------------------- derived value claims

\* the non-null values of the column over the pool of the row
NonNull == SelectSeq(node.pool, LAMBDA v : v.type # "None")

\* the sum of the ints of a sequence of values, from its end
RECURSIVE Total(_)
Total(values) ==
    IF values = <<>> THEN 0
    ELSE Total(SubSeq(values, 1, Len(values) - 1)) + values[Len(values)].int

\* C23: get_average of a row for a numeric column is the mean of the
\* non-null values of the column over the pool of the row, and 0 when
\* there is none; for a non-numeric column it is the common value when the
\* non-null values are all equal, and "---" when two of them differ.
C23_Average ==
    derived.op = "get_average"
        => LET average == derived.average
           IN /\ average.raised = "none"
              /\ node.column.number
                    => IF NonNull = <<>> THEN average.n = 0
                       ELSE average.n * Len(NonNull) = Total(NonNull) * average.d
              /\ (~node.column.number /\ NonNull # <<>>)
                    => IF \A i, j \in 1..Len(NonNull) : NonNull[i] = NonNull[j]
                       THEN average.str = NonNull[1].str
                       ELSE average.str = s_Mixed

\* C24: the age of a record is the current year less its year, and its
\* quality is price / 500 - mileage / 10000 - age / 2 rounded to the
\* nearest integer (a half away from zero); 15000, 40000, 2015 in 2024
\* give the age 9 and the quality 22.
C24_Quality ==
    derived.op = "quality"
        => LET q == derived.quality
               x == 20 * car.price - car.mileage - 5000 * derived.age
           IN /\ derived.age = current_year - car.year
              /\ 2 * (x - 10000 * q) <= 10000
              /\ 2 * (10000 * q - x) <= 10000
              /\ 2 * (x - 10000 * q) = 10000 => q < 0
              /\ 2 * (10000 * q - x) = 10000 => q > 0
              /\ (car = [price |-> 15000, mileage |-> 40000, year |-> 2015]
                  /\ current_year = 2024) => (derived.age = 9 /\ q = 22)

\* C24 witness: the quality of the record of the scenario was read
C24_Witness ==
    /\ derived.op = "quality"
    /\ car = [price |-> 15000, mileage |-> 40000, year |-> 2015]
    /\ current_year = 2024
    /\ derived.quality = 22

\* C30: get_stats of a row without non-null value for the column returns
\* the count 0 and 0 for mean, minimum, maximum and stddev, and raises
\* nothing; with values its median is minimum + (maximum - minimum) / 2.
C30_Stats ==
    (derived.op = "get_stats" /\ node.kind = "group" /\ node.column.number)
        => LET stats == derived.stats
           IN /\ stats.raised = "none"
              /\ NonNull = <<>>
                    => /\ stats.count = 0
                       /\ stats.mean = 0
                       /\ stats.minimum = 0
                       /\ stats.maximum = 0
                       /\ stats.variance = 0
              /\ NonNull # <<>>
                    => stats.median_halves = 2 * stats.minimum + (stats.maximum - stats.minimum)

====
